---- MODULE Spec2Model ----
(***************************************************************************)
(* SuperTester.forward (src/coders.py) as a state machine: one run of the  *)
(* install -> start Node -> migrate/start Django -> Selenium -> shutdown   *)
(* sequence, together with the operating-system processes it spawns,       *)
(* which run concurrently with it.                                         *)
(***************************************************************************)
EXTENDS Integers, Sequences, FiniteSets, TLC

VARIABLES
    env,        \* what the run finds on the machine (directories, executables)
    pc,         \* position of forward
    log,        \* the local list `log`
    ret,        \* the value returned by forward (a sequence of lines)
    raised,     \* the exception that left forward, "none" if none
    cmd,        \* the synchronous commands run with subprocess.run
    srv,        \* the background servers started with subprocess.Popen
    everUp,     \* servers that accepted connections at some point
    readyAt,    \* state of each server when the wait after its spawn ended
    kills,      \* number of Popen.kill() calls issued per server
    driver,     \* the Selenium session
    page,       \* node_page_text / django_page_text
    fs,         \* the files and directories that exist under code/
    dev         \* SuperDeveloper.forward: position, call number, bookkeeping

testerVars == <<env, pc, log, ret, raised, cmd, srv, everUp, readyAt, kills, driver, page>>
vars == <<env, pc, log, ret, raised, cmd, srv, everUp, readyAt, kills, driver, page, fs, dev>>

----------------------------------------------------------------------------
(* Bounds *)

MaxLen == 3     \* longest page body, in tokens
MaxRuns == 2    \* calls of SuperDeveloper.forward in a row

----------------------------------------------------------------------------
(* Data *)

Services == {"node", "django"}
Commands == {"npm_install", "migrate"}

\* A page body is a short sequence of tokens; "Hello World" is <<"H", "W">>.
Tokens == {"H", "W", "x"}
HelloWorld == <<"H", "W">>
NoText == <<"-">>      \* the text variable is not bound yet

Pages == UNION {[1..n -> Tokens] : n \in 0..MaxLen}

\* Python's `needle in hay` on strings: substring containment.
ContainsPrefixOnly(needle, hay) ==
    /\ Len(needle) <= Len(hay)
    /\ SubSeq(hay, 1, Len(needle)) = needle

Contains(needle, hay) ==
    \E i \in 0..Len(hay) :
        /\ i + Len(needle) <= Len(hay)
        /\ SubSeq(hay, i + 1, i + Len(needle)) = needle

\* The log lines and return strings of forward.
LInstall     == "[TEST] Installing Node dependencies"
LStartNode   == "[TEST] Starting Node server"
LDjango      == "[TEST] Applying Django migrations and starting server"
LSelenium    == "[TEST] Setting up Selenium"
LNodePass    == "[TEST] Node server: PASS"
LNodeFail    == "[TEST] Node server: FAIL"
LDjangoPass  == "[TEST] Django server: PASS"
LDjangoFail  == "[TEST] Django server: FAIL"
LSelError    == "[TEST] Selenium error"
LShutdown    == "[TEST] Shutting down servers"
RNoNode      == "No /code/node folder found"
RNoDjango    == "No /code/django folder found"
RInstallErr  == "Error installing node dependencies"
RDjangoErr   == "Error setting up Django project"

PassLine(s) == IF s = "node" THEN LNodePass ELSE LDjangoPass
FailLine(s) == IF s = "node" THEN LNodeFail ELSE LDjangoFail

\* if "Hello World" in <text>: PASS else FAIL
VerdictForNode(s, text) ==
    IF Contains(HelloWorld, text) THEN LNodePass ELSE LNodeFail

Verdict(s, text) ==
    IF Contains(HelloWorld, text) THEN PassLine(s) ELSE FailLine(s)

Running(s) == srv[s] \in {"starting", "up"}

\* Popen.kill(): signals a live process, does nothing to one that has exited.
KillSkipped(f, s) == f

Kill(f, s) ==
    IF f[s] \in {"starting", "up"} THEN [f EXCEPT ![s] = "killed"] ELSE f

\* SuperDeveloper.forward before its first call
DevIdle(admin) ==
    [pc |-> "Idle", run |-> 1, calls |-> 0, created |-> FALSE,
     generated |-> FALSE, result |-> "none", adminOnPath |-> admin]

----------------------------------------------------------------------------
(* Initial state: forward is called on some machine *)

Init ==
    /\ env \in [nodeDir : BOOLEAN, djangoDir : BOOLEAN,
                npmOnPath : BOOLEAN, pythonOnPath : BOOLEAN,
                chromeAvail : BOOLEAN]
    /\ pc = "Idle"
    /\ log = << >>
    /\ ret = << >>
    /\ raised = "none"
    /\ cmd = [c \in Commands |-> "unspawned"]
    /\ srv = [s \in Services |-> "unspawned"]
    /\ everUp = {}
    /\ readyAt = [s \in Services |-> "none"]
    /\ kills = [s \in Services |-> 0]
    /\ driver = "none"
    /\ page = [s \in Services |-> NoText]
    /\ fs = {d \in {"node", "django"} :
                \/ d = "node" /\ env.nodeDir
                \/ d = "django" /\ env.djangoDir}
    /\ dev = DevIdle(TRUE)

----------------------------------------------------------------------------
(* forward, statement by statement *)

Append1(l) == Append(log, l)

\* return <string>: forward hands back a single message, not the log
ReturnMessage(msg) ==
    /\ ret' = <<msg>>
    /\ pc' = "Returned"

\* an exception that no handler of forward catches
Propagate(exc) ==
    /\ raised' = exc
    /\ pc' = "Raised"

\* lines 192-195: node_dir check, first log line
CheckNodeDir ==
    /\ pc = "Idle"
    /\ IF ~env.nodeDir
       THEN /\ ReturnMessage(RNoNode)
            /\ UNCHANGED log
       ELSE /\ log' = Append1(LInstall)
            /\ pc' = "install"
            /\ UNCHANGED ret
    /\ UNCHANGED <<fs, dev, env, raised, cmd, srv, everUp, readyAt, kills, driver, page>>

\* line 197: subprocess.run(["npm", "install"]) starts the child, or raises
\* FileNotFoundError when npm is not on PATH (only CalledProcessError is caught)
InstallSpawn ==
    /\ pc = "install"
    /\ IF env.npmOnPath
       THEN /\ cmd' = [cmd EXCEPT !["npm_install"] = "running"]
            /\ pc' = "install_wait"
            /\ UNCHANGED raised
       ELSE /\ Propagate("FileNotFoundError")
            /\ UNCHANGED cmd
    /\ UNCHANGED <<fs, dev, env, log, ret, srv, everUp, readyAt, kills, driver, page>>

\* lines 197-199: npm install exits; check=True turns a non-zero exit into
\* CalledProcessError, whose handler returns the error string
InstallExitUnchecked(code) ==
    /\ pc = "install_wait"
    /\ cmd' = [cmd EXCEPT !["npm_install"] = IF code = 0 THEN "exited0" ELSE "exitedNZ"]
    /\ pc' = "start_node"
    /\ UNCHANGED <<fs, dev, env, log, ret, raised, srv, everUp, readyAt, kills, driver, page>>

InstallExit(code) ==
    /\ pc = "install_wait"
    /\ cmd' = [cmd EXCEPT !["npm_install"] = IF code = 0 THEN "exited0" ELSE "exitedNZ"]
    /\ IF code = 0
       THEN /\ pc' = "start_node"
            /\ UNCHANGED ret
       ELSE ReturnMessage(RInstallErr)
    /\ UNCHANGED <<fs, dev, env, log, raised, srv, everUp, readyAt, kills, driver, page>>

\* lines 202-209: log line, Popen(["npm", "start"])
StartNode ==
    /\ pc = "start_node"
    /\ log' = Append1(LStartNode)
    /\ srv' = [srv EXCEPT !["node"] = "starting"]
    /\ pc' = "sleep_node"
    /\ UNCHANGED <<fs, dev, env, ret, raised, cmd, everUp, readyAt, kills, driver, page>>

\* line 210: time.sleep(3) ends whatever the server is doing
SleepNode ==
    /\ pc = "sleep_node"
    /\ readyAt' = [readyAt EXCEPT !["node"] = srv["node"]]
    /\ pc' = "check_django"
    /\ UNCHANGED <<fs, dev, env, log, ret, raised, cmd, srv, everUp, kills, driver, page>>

\* lines 213-218: django_dir check; node is killed before the early return
CheckDjangoDirNoKill ==
    /\ pc = "check_django"
    /\ IF ~env.djangoDir
       THEN /\ ReturnMessage(RNoDjango)
            /\ UNCHANGED log
       ELSE /\ log' = Append1(LDjango)
            /\ pc' = "migrate"
            /\ UNCHANGED ret
    /\ UNCHANGED <<fs, dev, env, raised, cmd, srv, kills, everUp, readyAt, driver, page>>

CheckDjangoDir ==
    /\ pc = "check_django"
    /\ IF ~env.djangoDir
       THEN /\ srv' = Kill(srv, "node")
            /\ kills' = [kills EXCEPT !["node"] = @ + 1]
            /\ ReturnMessage(RNoDjango)
            /\ UNCHANGED log
       ELSE /\ log' = Append1(LDjango)
            /\ pc' = "migrate"
            /\ UNCHANGED <<srv, kills, ret>>
    /\ UNCHANGED <<fs, dev, env, raised, cmd, everUp, readyAt, driver, page>>

\* line 220: subprocess.run(["python", "manage.py", "migrate"]) starts the
\* child, or raises FileNotFoundError, which `except CalledProcessError`
\* does not catch
MigrateSpawn ==
    /\ pc = "migrate"
    /\ IF env.pythonOnPath
       THEN /\ cmd' = [cmd EXCEPT !["migrate"] = "running"]
            /\ pc' = "migrate_wait"
            /\ UNCHANGED raised
       ELSE /\ Propagate("FileNotFoundError")
            /\ UNCHANGED cmd
    /\ UNCHANGED <<fs, dev, env, log, ret, srv, everUp, readyAt, kills, driver, page>>

\* lines 220, 229-231: migrate exits; on a non-zero exit the handler kills
\* node and returns the error string
MigrateExit(code) ==
    /\ pc = "migrate_wait"
    /\ cmd' = [cmd EXCEPT !["migrate"] = IF code = 0 THEN "exited0" ELSE "exitedNZ"]
    /\ IF code = 0
       THEN /\ pc' = "start_django"
            /\ UNCHANGED <<srv, kills, ret>>
       ELSE /\ srv' = Kill(srv, "node")
            /\ kills' = [kills EXCEPT !["node"] = @ + 1]
            /\ ReturnMessage(RDjangoErr)
    /\ UNCHANGED <<fs, dev, env, log, raised, everUp, readyAt, driver, page>>

\* lines 221-227: Popen(["python", "manage.py", "runserver", "8000"])
StartDjango ==
    /\ pc = "start_django"
    /\ srv' = [srv EXCEPT !["django"] = "starting"]
    /\ pc' = "sleep_django"
    /\ UNCHANGED <<fs, dev, env, log, ret, raised, cmd, everUp, readyAt, kills, driver, page>>

\* line 228: time.sleep(3)
SleepDjango ==
    /\ pc = "sleep_django"
    /\ readyAt' = [readyAt EXCEPT !["django"] = srv["django"]]
    /\ pc' = "selenium"
    /\ UNCHANGED <<fs, dev, env, log, ret, raised, cmd, srv, everUp, kills, driver, page>>

\* the handler of lines 262-263: log the error, fall through to shutdown
SeleniumErrorUnrecorded(l) ==
    /\ log' = l
    /\ pc' = "shutdown"

SeleniumError(l) ==
    /\ log' = Append(l, LSelError)
    /\ pc' = "shutdown"

\* lines 234-240: log line, webdriver.Chrome(...) opens a session or raises
SeleniumSetup ==
    /\ pc = "selenium"
    /\ IF env.chromeAvail
       THEN /\ log' = Append1(LSelenium)
            /\ driver' = "open"
            /\ pc' = "nav_node"
       ELSE /\ SeleniumError(Append1(LSelenium))
            /\ UNCHANGED driver
    /\ UNCHANGED <<fs, dev, env, ret, raised, cmd, srv, everUp, readyAt, kills, page>>

\* lines 244, 253: driver.get(url) loads the page only from a server that is
\* up; otherwise it raises and the handler runs (driver.quit() is skipped)
Navigate(s) ==
    /\ pc = "nav_" \o s
    /\ \E loaded \in BOOLEAN :
        /\ loaded => srv[s] = "up"
        /\ IF loaded
           THEN /\ pc' = "read_" \o s
                /\ UNCHANGED log
           ELSE SeleniumError(log)
    /\ UNCHANGED <<fs, dev, env, ret, raised, cmd, srv, everUp, readyAt, kills, driver, page>>

\* lines 245-249, 254-258: read the body text, log PASS or FAIL
ReadBody(s) ==
    /\ pc = "read_" \o s
    /\ \E text \in Pages :
        /\ page' = [page EXCEPT ![s] = text]
        /\ log' = Append1(Verdict(s, text))
    /\ pc' = IF s = "node" THEN "nav_django" ELSE "quit"
    /\ UNCHANGED <<fs, dev, env, ret, raised, cmd, srv, everUp, readyAt, kills, driver>>

\* line 260: driver.quit()
Quit ==
    /\ pc = "quit"
    /\ driver' = "closed"
    /\ pc' = "shutdown"
    /\ UNCHANGED <<fs, dev, env, log, ret, raised, cmd, srv, everUp, readyAt, kills, page>>

\* lines 266-267: log line, node_process.kill()
Shutdown ==
    /\ pc = "shutdown"
    /\ log' = Append1(LShutdown)
    /\ srv' = Kill(srv, "node")
    /\ kills' = [kills EXCEPT !["node"] = @ + 1]
    /\ pc' = "kill_django"
    /\ UNCHANGED <<fs, dev, env, ret, raised, cmd, everUp, readyAt, driver, page>>

\* line 268: django_process.kill()
KillDjango ==
    /\ pc = "kill_django"
    /\ srv' = Kill(srv, "django")
    /\ kills' = [kills EXCEPT !["django"] = @ + 1]
    /\ pc' = "return"
    /\ UNCHANGED <<fs, dev, env, log, ret, raised, cmd, everUp, readyAt, driver, page>>

\* line 270: return "\n".join(log)
Return ==
    /\ pc = "return"
    /\ ret' = log
    /\ pc' = "Returned"
    /\ UNCHANGED <<fs, dev, env, log, raised, cmd, srv, everUp, readyAt, kills, driver, page>>

\* The calls in which forward blocks: subprocess.run, time.sleep, driver.get.
Blocking == {"install_wait", "sleep_node", "migrate_wait", "sleep_django",
             "nav_node", "nav_django"}

\* An external cancellation reaches forward as KeyboardInterrupt in a blocking
\* call. No handler of forward catches it (`except Exception` does not);
\* subprocess.run kills its own child before re-raising.
Interrupt ==
    /\ pc \in Blocking
    /\ Propagate("KeyboardInterrupt")
    /\ cmd' = [c \in Commands |-> IF cmd[c] = "running" THEN "killed" ELSE cmd[c]]
    /\ UNCHANGED <<fs, dev, env, log, ret, srv, everUp, readyAt, kills, driver, page>>

----------------------------------------------------------------------------
(* The spawned servers, running concurrently with forward *)

\* the server starts listening on its port
Boot(s) ==
    /\ srv[s] = "starting"
    /\ srv' = [srv EXCEPT ![s] = "up"]
    /\ everUp' = everUp \cup {s}
    /\ UNCHANGED <<fs, dev, env, pc, log, ret, raised, cmd, readyAt, kills, driver, page>>

\* the server process exits on its own (port in use, broken project, ...)
Crash(s) ==
    /\ srv[s] \in {"starting", "up"}
    /\ srv' = [srv EXCEPT ![s] = "exited"]
    /\ UNCHANGED <<fs, dev, env, pc, log, ret, raised, cmd, everUp, readyAt, kills, driver, page>>

----------------------------------------------------------------------------

Next ==
    \/ CheckNodeDir
    \/ InstallSpawn
    \/ \E code \in {0, 1} : InstallExit(code)
    \/ StartNode
    \/ SleepNode
    \/ CheckDjangoDir
    \/ MigrateSpawn
    \/ \E code \in {0, 1} : MigrateExit(code)
    \/ StartDjango
    \/ SleepDjango
    \/ SeleniumSetup
    \/ \E s \in Services : Navigate(s)
    \/ \E s \in Services : ReadBody(s)
    \/ Quit
    \/ Shutdown
    \/ KillDjango
    \/ Return
    \/ Interrupt
    \/ \E s \in Services : Boot(s)
    \/ \E s \in Services : Crash(s)

Spec == Init /\ [][Next]_vars

\* The statements forward executes by itself: the interpreter runs them, a
\* sleep ends, the browser call returns or raises. The exit of a child that
\* subprocess.run waits for (no timeout= is passed at lines 197 and 220) is
\* up to the child, as are the servers and an external interrupt.
ForwardStep ==
    \/ CheckNodeDir
    \/ InstallSpawn
    \/ StartNode
    \/ SleepNode
    \/ CheckDjangoDir
    \/ MigrateSpawn
    \/ StartDjango
    \/ SleepDjango
    \/ SeleniumSetup
    \/ \E s \in Services : Navigate(s)
    \/ \E s \in Services : ReadBody(s)
    \/ Quit
    \/ Shutdown
    \/ KillDjango
    \/ Return

FairSpec == Spec /\ WF_vars(ForwardStep)

TypeOK ==
    /\ pc \in {"Idle", "install", "install_wait", "start_node", "sleep_node",
               "check_django", "migrate", "migrate_wait", "start_django",
               "sleep_django", "selenium", "nav_node", "read_node",
               "nav_django", "read_django", "quit", "shutdown", "kill_django",
               "return", "Returned", "Raised"}
    /\ raised \in {"none", "FileNotFoundError", "KeyboardInterrupt"}
    /\ cmd \in [Commands -> {"unspawned", "running", "exited0", "exitedNZ", "killed"}]
    /\ srv \in [Services -> {"unspawned", "starting", "up", "exited", "killed"}]
    /\ everUp \subseteq Services
    /\ readyAt \in [Services -> {"none", "starting", "up", "exited"}]
    /\ kills \in [Services -> 0..2]
    /\ driver \in {"none", "open", "closed"}
    /\ page \in [Services -> Pages \cup {NoText}]

----------------------------------------------------------------------------
(* SuperDeveloper.forward, statement by statement, called MaxRuns times *)

\* the paths forward and django-admin touch, relative to code/
NodeDir      == "node"
PackageJson  == "node/package.json"
IndexJs      == "node/index.js"
DjangoDir    == "django"
ManagePy     == "django/manage.py"
ProjectDir   == "django/helloproject"
UrlsPy       == "django/helloproject/urls.py"
\* line 123: os.path.join(django_dir, project_name, "manage.py")
ManagePyPath == "django/helloproject/manage.py"

Paths == {NodeDir, PackageJson, IndexJs, DjangoDir, ManagePy, ProjectDir,
          UrlsPy, ManagePyPath}

Parent(path) ==
    CASE path \in {PackageJson, IndexJs} -> NodeDir
      [] path \in {ManagePy, ProjectDir} -> DjangoDir
      [] path \in {UrlsPy, ManagePyPath} -> ProjectDir
      [] OTHER -> path

\* a file tree: whatever exists, exists inside an existing directory
Trees == {f \in SUBSET Paths : \A path \in f : Parent(path) \in f}

\* `django-admin startproject helloproject .` in code/django writes manage.py
\* and the package helloproject/ with its urls.py; it refuses to overwrite a
\* file that exists
StartProjectFiles == {ManagePy, ProjectDir, UrlsPy}
StartProjectConflict(f) == ManagePy \in f \/ UrlsPy \in f

DevInit ==
    /\ env = [nodeDir |-> FALSE, djangoDir |-> FALSE, npmOnPath |-> TRUE,
              pythonOnPath |-> TRUE, chromeAvail |-> TRUE]
    /\ pc = "Idle"
    /\ log = << >>
    /\ ret = << >>
    /\ raised = "none"
    /\ cmd = [c \in Commands |-> "unspawned"]
    /\ srv = [s \in Services |-> "unspawned"]
    /\ everUp = {}
    /\ readyAt = [s \in Services |-> "none"]
    /\ kills = [s \in Services |-> 0]
    /\ driver = "none"
    /\ page = [s \in Services |-> NoText]
    /\ fs \in Trees
    /\ \E admin \in BOOLEAN : dev = DevIdle(admin)

\* lines 75-76: os.makedirs(node_dir, exist_ok=True)
DevMakeNodeDir ==
    /\ dev.pc = "Idle"
    /\ fs' = fs \cup {NodeDir}
    /\ dev' = [dev EXCEPT !.pc = "write_node"]
    /\ UNCHANGED testerVars

\* lines 79-111: write package.json and index.js
DevWriteNode ==
    /\ dev.pc = "write_node"
    /\ fs' = fs \cup {PackageJson, IndexJs}
    /\ dev' = [dev EXCEPT !.pc = "make_django"]
    /\ UNCHANGED testerVars

\* lines 114-115: os.makedirs(django_dir, exist_ok=True)
DevMakeDjangoDir ==
    /\ dev.pc = "make_django"
    /\ fs' = fs \cup {DjangoDir}
    /\ dev' = [dev EXCEPT !.pc = "check_manage"]
    /\ UNCHANGED testerVars

\* lines 123-124: if not os.path.exists(manage_py_path)
DevCheckManagePy ==
    /\ dev.pc = "check_manage"
    /\ dev' = [dev EXCEPT !.pc = IF ManagePyPath \notin fs
                                 THEN "startproject" ELSE "write_urls"]
    /\ UNCHANGED <<fs, testerVars>>

\* lines 126-133: subprocess.run(["django-admin", "startproject", ...],
\* check=True); a non-zero exit returns the error string, a missing
\* django-admin raises FileNotFoundError, which is not caught
DevStartProject ==
    /\ dev.pc = "startproject"
    /\ IF ~dev.adminOnPath
       THEN /\ dev' = [dev EXCEPT !.pc = "Raised", !.result = "FileNotFoundError"]
            /\ UNCHANGED fs
       ELSE \E ok \in BOOLEAN :
            /\ ok => ~StartProjectConflict(fs)
            /\ IF ok
               THEN /\ fs' = fs \cup StartProjectFiles
                    /\ dev' = [dev EXCEPT !.pc = "write_urls", !.calls = @ + 1,
                                          !.created = TRUE]
               ELSE /\ fs' = fs
                    /\ dev' = [dev EXCEPT !.pc = "Returned", !.calls = @ + 1,
                                          !.result = "Error creating Django project"]
    /\ UNCHANGED testerVars

\* lines 137-153: open(django_urls_path, "w") needs the directory
\* code/django/helloproject; without it open raises FileNotFoundError
DevWriteUrls ==
    /\ dev.pc = "write_urls"
    /\ IF ProjectDir \in fs
       THEN /\ fs' = fs \cup {UrlsPy}
            /\ dev' = [dev EXCEPT !.pc = "return"]
       ELSE /\ dev' = [dev EXCEPT !.pc = "Raised", !.result = "FileNotFoundError"]
            /\ UNCHANGED fs
    /\ UNCHANGED testerVars

\* lines 156-160: return the success text
DevReturn ==
    /\ dev.pc = "return"
    /\ dev' = [dev EXCEPT !.pc = "Returned", !.result = "Created"]
    /\ UNCHANGED <<fs, testerVars>>

\* the tool is called again on the same directory tree
DevCallAgain ==
    /\ dev.pc \in {"Returned", "Raised"}
    /\ dev.run < MaxRuns
    /\ dev' = [dev EXCEPT !.pc = "Idle", !.run = @ + 1, !.calls = 0,
                          !.created = FALSE, !.result = "none",
                          !.generated = @ \/ (dev.created /\ dev.result = "Created")]
    /\ UNCHANGED <<fs, testerVars>>

DevNext ==
    \/ DevMakeNodeDir
    \/ DevWriteNode
    \/ DevMakeDjangoDir
    \/ DevCheckManagePy
    \/ DevStartProject
    \/ DevWriteUrls
    \/ DevReturn
    \/ DevCallAgain

DevSpec == DevInit /\ [][DevNext]_vars

----------------------------------------------------------------------------
(* Vocabulary of the properties *)

InLog(l) == \E i \in 1..Len(log) : log[i] = l
Count(l) == Cardinality({i \in 1..Len(log) : log[i] = l})
Verified(s) == InLog(PassLine(s)) \/ InLog(FailLine(s))
Finished == pc \in {"Returned", "Raised"}
Teardown == {"shutdown", "kill_django", "return", "Returned"}
DjangoStage == {"check_django", "migrate", "migrate_wait", "start_django",
                "sleep_django"}
NothingSpawned ==
    /\ \A c \in Commands : cmd[c] = "unspawned"
    /\ \A s \in Services : srv[s] = "unspawned"

\* "H" immediately followed by "W" somewhere in the body
BodyHasExpectedText(text) ==
    \E i \in 1..(Len(text) - 1) : text[i] = "H" /\ text[i + 1] = "W"

----------------------------------------------------------------------------
(* C1: whatever the outcome of the run (return or exception), no server    *)
(* spawned during the run is still running once the run has completed.     *)
C1_NoOrphanProcess ==
    Finished => \A s \in Services : ~Running(s)

(* C2: when either project directory is missing, the run fails without     *)
(* ever spawning a process (install, Node server, migration, Django).      *)
C2_MissingDirSpawnsNothing ==
    (~env.nodeDir \/ ~env.djangoDir) => NothingSpawned

(* C3: forward never raises on a stage-local failure: the only way a run   *)
(* ends is by returning (an external interrupt is not a stage failure).    *)
C3_NeverRaises ==
    pc = "Raised" => raised = "KeyboardInterrupt"

(* C4: once Node was launched and the migration exited non-zero, the run   *)
(* has returned the Django set-up error, Node has been killed (one kill    *)
(* call) and is not running, and no Django server was ever spawned.        *)
C4_MigrateFailureKillsNode ==
    cmd["migrate"] = "exitedNZ" =>
        /\ pc = "Returned"
        /\ ret = <<RDjangoErr>>
        /\ srv["node"] # "unspawned"
        /\ ~Running("node")
        /\ kills["node"] = 1
        /\ srv["django"] = "unspawned"

C4_Witness ==
    /\ cmd["migrate"] = "exitedNZ"
    /\ "node" \in everUp
    /\ srv["node"] = "killed"
    /\ pc = "Returned"

(* C5: when the browser session ran to its end, the log holds exactly one  *)
(* verification entry per service, PASS exactly when that service's body   *)
(* contains the expected text; the run goes on to teardown, and once it    *)
(* has returned the report is the log and both servers are stopped.        *)
C5_OneVerdictPerService ==
    driver = "closed" =>
        /\ \A s \in Services :
            /\ Count(PassLine(s)) + Count(FailLine(s)) = 1
            /\ InLog(PassLine(s)) <=> BodyHasExpectedText(page[s])
        /\ pc \in Teardown
        /\ pc = "Returned" =>
            /\ ret = log
            /\ \A s \in Services : ~Running(s) /\ kills[s] = 1

C5_Witness ==
    /\ pc = "Returned"
    /\ driver = "closed"
    /\ InLog(LNodePass)
    /\ InLog(LDjangoFail)
    /\ page["node"] = <<"x", "H", "W">>
    /\ srv["node"] = "killed"
    /\ srv["django"] = "killed"

(* C6: a verification entry (PASS or FAIL) exists for a service only if    *)
(* the service was reachable when the wait that follows its spawn ended.   *)
C6_VerifiedOnlyIfConfirmedReachable ==
    \A s \in Services : Verified(s) => readyAt[s] = "up"

(* C7: when the Node server was never reachable and is dead at the end of  *)
(* its readiness wait, the Django stage is not entered: no migration and   *)
(* no Django server are spawned.                                           *)
C7_UnreachableNodeStopsRun ==
    (readyAt["node"] = "exited" /\ "node" \notin everUp) =>
        /\ cmd["migrate"] = "unspawned"
        /\ srv["django"] = "unspawned"

(* C8: when no browser session can be created, past the Selenium stage the *)
(* error is in the log, no PASS entry exists, the run is in teardown, and  *)
(* by the time the report is returned both servers received their kill     *)
(* call and are stopped; the report is the log.                            *)
C8_NoBrowserStillTearsDown ==
    (~env.chromeAvail /\ InLog(LSelenium)) =>
        /\ InLog(LSelError)
        /\ \A s \in Services : ~InLog(PassLine(s))
        /\ driver = "none"
        /\ pc \in Teardown
        /\ pc \in {"return", "Returned"} =>
            \A s \in Services : ~Running(s) /\ kills[s] = 1
        /\ pc = "Returned" => ret = log /\ InLog(LShutdown)

C8_Witness ==
    /\ ~env.chromeAvail
    /\ pc = "Returned"
    /\ InLog(LSelError)
    /\ ret = log
    /\ srv["node"] = "killed"
    /\ srv["django"] = "killed"

(* C9: a browser session is never still open once the run has moved on to  *)
(* teardown.                                                               *)
C9_SessionClosedBeforeTeardown ==
    pc \in Teardown => driver # "open"

(* C10: while forward is in Django's launch stage, Node's launch has        *)
(* resolved: at the end of Node's wait the server was up or had failed.    *)
C10_DjangoAfterNodeResolved ==
    pc \in DjangoStage => readyAt["node"] \in {"up", "exited"}

(* C11: every run terminates: forward eventually returns or raises, even   *)
(* when an install or pre-start command never exits (an execution timeout  *)
(* would end the wait).                                                    *)
C11_EveryRunTerminates ==
    <>Finished

(* C12: once npm install has exited non-zero, the run has returned the     *)
(* install error and nothing is running: neither the Node server nor any   *)
(* Django command was ever spawned.                                        *)
C12_InstallFailureSpawnsNothing ==
    cmd["npm_install"] = "exitedNZ" =>
        /\ pc = "Returned"
        /\ ret = <<RInstallErr>>
        /\ raised = "none"
        /\ \A s \in Services : srv[s] = "unspawned" /\ kills[s] = 0
        /\ cmd["migrate"] = "unspawned"

C12_Witness ==
    /\ cmd["npm_install"] = "exitedNZ"
    /\ pc = "Returned"
    /\ env.djangoDir /\ env.pythonOnPath

(* C13: the report of a run that has returned holds every entry logged     *)
(* during the run, the entries of the stages before a failed one included. *)
C13_ReportKeepsLog ==
    pc = "Returned" =>
        \A i \in 1..Len(log) : \E j \in 1..Len(ret) : ret[j] = log[i]

(* C14: the wait after a spawn is decided by the service's reachability:   *)
(* forward leaves the wait for the next stage only with the service up     *)
(* (a poll that exhausts its attempts leaves it for the failure path).     *)
C14_WaitDecidedByReachability ==
    [][/\ (pc = "sleep_node" /\ pc' = "check_django") => srv["node"] = "up"
       /\ (pc = "sleep_django" /\ pc' = "selenium") => srv["django"] = "up"]_vars

(* C15: no server is ever sent more than one kill call, and when forward   *)
(* has returned every server spawned in the run received exactly one.      *)
C15_KilledExactlyOnce ==
    /\ \A s \in Services : kills[s] <= 1
    /\ pc = "Returned" =>
        \A s \in Services : srv[s] # "unspawned" => kills[s] = 1

C15_Witness ==
    /\ pc = "Returned"
    /\ ret = <<RNoDjango>>
    /\ srv["node"] = "killed"
    /\ kills["node"] = 1

(* C16: when the browser session was created and the Node page could not   *)
(* be verified because of a browser error, the run still produces a        *)
(* verification entry for Django.                                          *)
C16_DjangoVerifiedDespiteNodeError ==
    (pc = "Returned" /\ driver = "open" /\ ~Verified("node")) =>
        Verified("django")

\* position of a log line in the order of the stages
Rank(l) ==
    CASE l = LInstall -> 1
      [] l = LStartNode -> 2
      [] l = LDjango -> 3
      [] l = LSelenium -> 4
      [] l \in {LNodePass, LNodeFail} -> 5
      [] l \in {LDjangoPass, LDjangoFail} -> 6
      [] l = LSelError -> 7
      [] l = LShutdown -> 8
      [] OTHER -> 0

(* C17: a run that reached the verification stage returns its log only     *)
(* after both kill calls; the entries are in stage order, each at most     *)
(* once, beginning with the four stage entries and ending with shutdown.   *)
C17_ReportInStageOrder ==
    (pc = "Returned" /\ InLog(LSelenium)) =>
        /\ \A s \in Services : kills[s] = 1
        /\ ret = log
        /\ Len(ret) >= 5
        /\ SubSeq(ret, 1, 4) = <<LInstall, LStartNode, LDjango, LSelenium>>
        /\ ret[Len(ret)] = LShutdown
        /\ \A i \in 1..(Len(ret) - 1) : Rank(ret[i]) < Rank(ret[i + 1])

C17_Witness ==
    /\ pc = "Returned"
    /\ ret = <<LInstall, LStartNode, LDjango, LSelenium, LNodeFail, LSelError,
               LShutdown>>
    /\ kills = [s \in Services |-> 1]

(* C18: in a call that follows a successful call which generated the      *)
(* Django project, django-admin startproject is not invoked again.         *)
C18_RerunSkipsStartproject ==
    dev.generated => dev.calls = 0

====
